---- MODULE Spec2Model ----
(***************************************************************************)
(* compare_tables of mmu-to-hats/verification/compare.py as a state        *)
(* machine: one comparison of two Arrow tables, one action per block of    *)
(* the function, with the pyarrow calls it makes (sort_by, equals,         *)
(* to_pylist, not_equal, index) modelled by what they compute.             *)
(***************************************************************************)
EXTENDS Integers, Sequences, FiniteSets

VARIABLES table1, table2, pc, issues, sort_column, table1_sorted,
          table2_sorted, todo, checked, raised, result

vars == <<table1, table2, pc, issues, sort_column, table1_sorted,
          table2_sorted, todo, checked, raised, result>>

-----------------------------------------------------------------------------
(* Bounds of the explored inputs. *)

\* most rows of a table in Spec (any two tables over two column names)
MaxRows == 2
\* most rows of a table in SpecWide (any two tables over three column names)
WideRows == 1
\* most rows of the table in SpecSame (a table against itself)
SameRows == 2
\* most rows of the table in SpecPerm (a table against its permutations)
PermRows == 2
\* most rows of a table in SpecColumn (two tables of one scalar column)
ColRows == 3

-----------------------------------------------------------------------------
(* Values, columns, tables. *)

\* a null cell (Python None)
Null == [k |-> "null", v |-> 0]
\* a floating-point NaN cell
NaN == [k |-> "nan", v |-> 0]
\* a nested cell whose conversion to a Python object raises
\* (e.g. a list of timestamps outside the datetime range)
Bad == [k |-> "bad", v |-> 0]
IntCell(n) == [k |-> "int", v |-> n]
ListCell(n) == [k |-> "list", v |-> n]

\* the cells of a scalar column and of a nested column
ScalarVals == {IntCell(1), IntCell(2), Null, NaN}
NestedVals == {ListCell(1), ListCell(2), Null, Bad}

\* column names in alphabetical order
NameOrder == <<"a", "b", "c">>
AllNames == {NameOrder[i] : i \in 1..Len(NameOrder)}

\* pa.types.is_nested on the type tag of a column
is_nested(type) == type = "nested"

\* the columns of n cells: a type tag and the cells, which fit the type
ColumnsOfLen(n, svals, nvals) ==
    {[type |-> "scalar", vals |-> s] : s \in [1..n -> svals]}
    \cup {[type |-> "nested", vals |-> s] : s \in [1..n -> nvals]}

\* the tables over the column names `names`: every column has num_rows cells;
\* a table without columns has no rows
Tables(names, rows, svals, nvals) ==
    UNION {UNION {{[num_rows |-> n, columns |-> f] :
                      f \in [S -> ColumnsOfLen(n, svals, nvals)]} :
                  S \in {X \in SUBSET names : n > 0 => X # {}}} :
           n \in rows}

column_names(t) == DOMAIN t.columns

\* sorted(names): the names in alphabetical order
sorted(S) == SelectSeq(NameOrder, LAMBDA c : c \in S)

NoTable == [num_rows |-> 0, columns |-> [c \in {} |-> 0]]
NoColumn == "None"

-----------------------------------------------------------------------------
(* The pyarrow calls. *)

\* the order of sort_indices: ascending, NaN after every number, nulls at the end
Before(x, y) ==
    \/ x.k = "int" /\ y.k = "int" /\ x.v < y.v
    \/ x.k = "int" /\ y.k # "int"
    \/ x.k = "nan" /\ y.k = "null"

\* the place (1-based) of row i in the stable ascending sort of vals
SortPos(vals, i) ==
    1 + Cardinality({j \in 1..Len(vals) :
                        \/ Before(vals[j], vals[i])
                        \/ ~Before(vals[i], vals[j]) /\ j < i})

\* no sort at all: the rows stay as they are
UnsortedIndices(vals) == [k \in 1..Len(vals) |-> k]

\* sort_indices: the row that comes k-th
SortIndices(vals) ==
    [k \in 1..Len(vals) |-> CHOOSE i \in 1..Len(vals) : SortPos(vals, i) = k]

\* Table.take: the rows in the order idx
Take(t, idx) ==
    [num_rows |-> t.num_rows,
     columns |-> [c \in column_names(t) |->
                    [type |-> t.columns[c].type,
                     vals |-> [k \in 1..t.num_rows |-> t.columns[c].vals[idx[k]]]]]]

\* Table.sort_by(key): raises on a key of nested type (no sort kernel)
sort_by(t, key) ==
    IF is_nested(t.columns[key].type)
    THEN [ok |-> FALSE, table |-> NoTable]
    ELSE [ok |-> TRUE, table |-> Take(t, SortIndices(t.columns[key].vals))]

\* cell equality under which a null equals nothing (as pc.equal has it)
CellEqualsNoNull(x, y) == x = y /\ x.k = "int"

\* two cells are equal for ChunkedArray.equals: both null, or the same number
\* (NaN is not equal to NaN: EqualOptions.nans_equal is off by default)
CellEquals(x, y) == x = y /\ x.k # "nan"

\* equals that looks at the type and the length only
EqualsShapeOnly(col1, col2) ==
    /\ col1.type = col2.type
    /\ Len(col1.vals) = Len(col2.vals)

\* ChunkedArray.equals: same type, same length, every cell equal
equals(col1, col2) ==
    /\ col1.type = col2.type
    /\ Len(col1.vals) = Len(col2.vals)
    /\ \A i \in 1..Len(col1.vals) : CellEquals(col1.vals[i], col2.vals[i])

\* to_pylist: raises when a cell has no Python value
to_pylist(col) ==
    IF \E i \in 1..Len(col.vals) : col.vals[i] = Bad
    THEN [ok |-> FALSE, list |-> <<>>]
    ELSE [ok |-> TRUE, list |-> col.vals]

\* == of two Python objects made by to_pylist (None == None; nan != nan)
PyEq(x, y) == x = y /\ x.k # "nan"

\* == of two Python lists
PyListEq(py1, py2) ==
    /\ Len(py1) = Len(py2)
    /\ \A i \in 1..Len(py1) : PyEq(py1[i], py2[i])

\* an index found, or the lookup raised
Found(i) == [ok |-> TRUE, index |-> i]
Raised == [ok |-> FALSE, index |-> 0]

\* next(i for i in range(len(py1)) if py1[i] != py2[i]), 0-based:
\* IndexError when py2 ends first, StopIteration when nothing differs
FirstDiffNested(py1, py2) ==
    LET hit(i) == i > Len(py2) \/ ~PyEq(py1[i], py2[i])
        H == {i \in 1..Len(py1) : hit(i)}
        m == CHOOSE i \in H : \A j \in H : i <= j
    IN  IF H = {} THEN Raised
        ELSE IF m > Len(py2) THEN Raised
        ELSE Found(m - 1)

\* pc.not_equal of two cells: "null" when either is null, else whether they differ
not_equal(x, y) ==
    IF x.k = "null" \/ y.k = "null" THEN "null"
    ELSE IF x = y /\ x.k # "nan" THEN "false" ELSE "true"

\* pc.index(pc.not_equal(col1, col2), True).as_py(), 0-based: not_equal raises
\* on different types or lengths; index gives -1 when no cell is true
FirstDiffScalar(col1, col2) ==
    IF col1.type # col2.type \/ Len(col1.vals) # Len(col2.vals) THEN Raised
    ELSE LET H == {i \in 1..Len(col1.vals) :
                      not_equal(col1.vals[i], col2.vals[i]) = "true"}
         IN  IF H = {} THEN Found(-1)
             ELSE Found((CHOOSE i \in H : \A j \in H : i <= j) - 1)

-----------------------------------------------------------------------------
(* The findings (the dicts appended to `issues`). *)

NoNames == <<>>

Issue(type, text, names, col, has_index, index) ==
    [type |-> type, text |-> text, names |-> names, col |-> col,
     has_index |-> has_index, index |-> index]

RowCountIssue == Issue("row_count", "Row count mismatch", NoNames, NoColumn, FALSE, 0)
\* side 1: "{label1} has additional columns", side 2: "{label2} has ..."
ColumnsIssue(side, names) ==
    Issue("columns", IF side = 1 THEN "label1 has additional columns"
                     ELSE "label2 has additional columns",
          names, NoColumn, FALSE, 0)
NoSortableIssue ==
    Issue("sorting", "No sortable column found in common columns",
          NoNames, NoColumn, FALSE, 0)
ErrorIssue ==
    Issue("sorting", "Error during sorting/comparison", NoNames, NoColumn, FALSE, 0)
ValuesIssue(col, diff) ==
    IF diff.ok
    THEN Issue("column_values", "has differences (first at row)", NoNames, col,
               TRUE, diff.index)
    ELSE Issue("column_values", "has differences", NoNames, col, FALSE, 0)

-----------------------------------------------------------------------------
(* compare_tables, block by block. *)

cols1 == column_names(table1)
cols2 == column_names(table2)
cols_only_in_1 == cols1 \ cols2
cols_only_in_2 == cols2 \ cols1
common_cols == cols1 \cap cols2

\* no handler: the error leaves compare_tables
OuterExceptMissing(iss) == [issues |-> iss, raised |-> TRUE]

\* a handler that starts the report over with the error alone
OuterExceptReset(iss) == [issues |-> <<ErrorIssue>>, raised |-> FALSE]

\* "except Exception as e" around the sort and the column loop: the error
\* becomes a finding and the function goes on to its report
OuterExcept(iss) == [issues |-> Append(iss, ErrorIssue), raised |-> FALSE]

\* the bare "except:" around the first-difference lookup: the finding is
\* emitted without an index
InnerExcept(iss, col) ==
    [issues |-> Append(iss, ValuesIssue(col, Raised)), raised |-> FALSE]

\* if table1.num_rows != table2.num_rows: issues.append(row_count)
RowCountFindings(t1, t2) ==
    IF t1.num_rows # t2.num_rows THEN <<RowCountIssue>> ELSE <<>>

RowCount ==
    /\ pc = "rowcount"
    /\ issues' = issues \o RowCountFindings(table1, table2)
    /\ pc' = "columns"
    /\ UNCHANGED <<table1, table2, sort_column, table1_sorted, table2_sorted,
                   todo, checked, raised, result>>

\* one finding for both sides, naming every column that is not common
ColumnFindingsMerged(only1, only2) ==
    IF only1 \cup only2 # {}
    THEN <<ColumnsIssue(1, sorted(only1 \cup only2))>>
    ELSE <<>>

\* the two column-set findings, label1's first
ColumnFindings(only1, only2) ==
    (IF only1 # {} THEN <<ColumnsIssue(1, sorted(only1))>> ELSE <<>>)
    \o (IF only2 # {} THEN <<ColumnsIssue(2, sorted(only2))>> ELSE <<>>)

\* a guard that also wants the row counts to agree
CompareGuardSameRows(t1, t2) ==
    /\ column_names(t1) \cap column_names(t2) # {}
    /\ t1.num_rows > 0
    /\ t2.num_rows = t1.num_rows

\* if common_cols and table1.num_rows > 0 and table2.num_rows > 0
CompareGuard(t1, t2) ==
    /\ column_names(t1) \cap column_names(t2) # {}
    /\ t1.num_rows > 0
    /\ t2.num_rows > 0

Columns ==
    /\ pc = "columns"
    /\ issues' = issues \o ColumnFindings(cols_only_in_1, cols_only_in_2)
    /\ pc' = IF CompareGuard(table1, table2) THEN "select" ELSE "report"
    /\ UNCHANGED <<table1, table2, sort_column, table1_sorted, table2_sorted,
                   todo, checked, raised, result>>

\* the first common column, alphabetically, whatever its type
FindSortColumnAnyType(t1, common) == Head(sorted(common))

\* the first common column, alphabetically, whose type in table1 is not nested
FindSortColumn(t1, common) ==
    LET S == SelectSeq(sorted(common),
                       LAMBDA c : ~is_nested(t1.columns[c].type))
    IN  IF S = <<>> THEN NoColumn ELSE Head(S)

SelectSortColumn ==
    /\ pc = "select"
    /\ sort_column' = FindSortColumn(table1, common_cols)
    /\ IF sort_column' = NoColumn
       THEN /\ issues' = Append(issues, NoSortableIssue)
            /\ pc' = "report"
       ELSE /\ issues' = issues
            /\ pc' = "sort"
    /\ UNCHANGED <<table1, table2, table1_sorted, table2_sorted, todo, checked,
                   raised, result>>

\* table1_sorted = table1.sort_by(sort_column); table2_sorted = ...
Sort ==
    /\ pc = "sort"
    /\ LET s1 == sort_by(table1, sort_column)
           s2 == sort_by(table2, sort_column)
       IN  IF s1.ok /\ s2.ok
           THEN /\ table1_sorted' = s1.table
                /\ table2_sorted' = s2.table
                /\ todo' = sorted(common_cols)
                /\ pc' = "compare"
                /\ UNCHANGED <<issues, raised>>
           ELSE LET h == OuterExcept(issues)
                IN  /\ issues' = h.issues
                    /\ raised' = h.raised
                    /\ pc' = IF h.raised THEN "done" ELSE "report"
                    /\ UNCHANGED <<table1_sorted, table2_sorted, todo>>
    /\ UNCHANGED <<table1, table2, sort_column, checked, result>>

\* columns_equal of one column of the loop: "raise" when to_pylist raises
ColumnsEqual(col1, col2) ==
    IF is_nested(col1.type)
    THEN LET py1 == to_pylist(col1)
             py2 == to_pylist(col2)
         IN  IF ~py1.ok \/ ~py2.ok THEN "raise"
             ELSE IF PyListEq(py1.list, py2.list) THEN "equal" ELSE "differ"
    ELSE IF equals(col1, col2) THEN "equal" ELSE "differ"

\* first_diff_idx of a column found unequal
FirstDiff(col1, col2) ==
    IF is_nested(col1.type)
    THEN FirstDiffNested(to_pylist(col1).list, to_pylist(col2).list)
    ELSE FirstDiffScalar(col1, col2)

\* one turn of "for col_name in sorted(common_cols)"
CompareColumn ==
    /\ pc = "compare"
    /\ todo # <<>>
    /\ LET col_name == Head(todo)
           col1 == table1_sorted.columns[col_name]
           col2 == table2_sorted.columns[col_name]
           eq == ColumnsEqual(col1, col2)
           diff == FirstDiff(col1, col2)
           next == IF Tail(todo) = <<>> THEN "report" ELSE "compare"
       IN  /\ checked' = Append(checked, col_name)
           /\ CASE eq = "equal" ->
                     /\ todo' = Tail(todo)
                     /\ pc' = next
                     /\ UNCHANGED <<issues, raised>>
                [] eq = "differ" /\ diff.ok ->
                     /\ issues' = Append(issues, ValuesIssue(col_name, diff))
                     /\ todo' = Tail(todo)
                     /\ pc' = next
                     /\ UNCHANGED raised
                [] eq = "differ" /\ ~diff.ok ->
                     LET h == InnerExcept(issues, col_name)
                     IN  /\ issues' = h.issues
                         /\ raised' = h.raised
                         /\ todo' = Tail(todo)
                         /\ pc' = IF h.raised THEN "done" ELSE next
                [] OTHER ->
                     LET h == OuterExcept(issues)
                     IN  /\ issues' = h.issues
                         /\ raised' = h.raised
                         /\ todo' = todo
                         /\ pc' = IF h.raised THEN "done" ELSE "report"
    /\ UNCHANGED <<table1, table2, sort_column, table1_sorted, table2_sorted,
                   result>>

\* "if not issues: return True / else: return False"
Verdict(iss) == IF iss = <<>> THEN "True" ELSE "False"

Report ==
    /\ pc = "report"
    /\ result' = Verdict(issues)
    /\ pc' = "done"
    /\ UNCHANGED <<table1, table2, issues, sort_column, table1_sorted,
                   table2_sorted, todo, checked, raised>>

Next == RowCount \/ Columns \/ SelectSortColumn \/ Sort \/ CompareColumn \/ Report

\* the state at the call of compare_tables(t1, t2)
Start(t1, t2) ==
    /\ table1 = t1
    /\ table2 = t2
    /\ pc = "rowcount"
    /\ issues = <<>>
    /\ sort_column = NoColumn
    /\ table1_sorted = NoTable
    /\ table2_sorted = NoTable
    /\ todo = <<>>
    /\ checked = <<>>
    /\ raised = FALSE
    /\ result = "none"

\* any two tables over the columns a, b; a scalar cell is 1 or null, a nested
\* cell is [1] or unconvertible
Names2 == {"a", "b"}
Inputs == Tables(Names2, 0..MaxRows, {IntCell(1), Null}, {ListCell(1), Bad})

Init == \E t1 \in Inputs, t2 \in Inputs : Start(t1, t2)

Spec == Init /\ [][Next]_vars

\* any two tables over the columns a, b, c; a scalar cell is 1 or null, a
\* nested cell is [1] or null
WideInputs == Tables(AllNames, 0..WideRows, {IntCell(1), Null}, {ListCell(1), Null})

InitWide == \E t1 \in WideInputs, t2 \in WideInputs : Start(t1, t2)

SpecWide == InitWide /\ [][Next]_vars

\* compare_tables(T, T)
SameInputs == Tables(Names2, 0..SameRows, ScalarVals, NestedVals)

InitSame == \E t \in SameInputs : Start(t, t)

SpecSame == InitSame /\ [][Next]_vars

\* compare_tables(T, permute(T, P)), T without NaN and without unconvertible cells
RowOrders(n) == {p \in [1..n -> 1..n] : \A i, j \in 1..n : i # j => p[i] # p[j]}
PermInputs == Tables(Names2, 0..PermRows, {IntCell(1), IntCell(2), Null},
                     {ListCell(1), ListCell(2), Null})

InitPerm == \E t \in PermInputs : \E p \in RowOrders(t.num_rows) :
                Start(t, Take(t, p))

SpecPerm == InitPerm /\ [][Next]_vars

\* two tables of the one scalar column a
ColInputs == Tables({"a"}, 0..ColRows, {IntCell(1), IntCell(2), Null}, {})

InitColumn == \E t1 \in ColInputs, t2 \in ColInputs :
                 /\ t1.columns # NoTable.columns
                 /\ t2.columns # NoTable.columns
                 /\ Start(t1, t2)

SpecColumn == InitColumn /\ [][Next]_vars

-----------------------------------------------------------------------------
(* What the claims speak of. *)

Done == pc = "done"
Range(s) == {s[i] : i \in 1..Len(s)}
IssuesOfType(ty) == SelectSeq(issues, LAMBDA e : e.type = ty)
ValueIssuesOf(c) == SelectSeq(issues, LAMBDA e : e.type = "column_values" /\ e.col = c)
ErrorIssues == SelectSeq(issues, LAMBDA e : e.text = "Error during sorting/comparison")
UnsortableIssues ==
    SelectSeq(issues, LAMBDA e : e.text = "No sortable column found in common columns")

\* the place of a name in the alphabet
NameIndex(c) == CHOOSE i \in 1..Len(NameOrder) : NameOrder[i] = c
IsAlphabetical(names) ==
    \A i, j \in 1..Len(names) : i < j => NameIndex(names[i]) < NameIndex(names[j])

\* two columns agree position by position, in value and in null-ness
SameCells(col1, col2) ==
    /\ Len(col1.vals) = Len(col2.vals)
    /\ \A i \in 1..Len(col1.vals) : col1.vals[i] = col2.vals[i]

\* ts holds the rows of t, ascending by the column key
IsCanonical(t, ts, key) ==
    /\ \E p \in RowOrders(t.num_rows) : ts = Take(t, p)
    /\ \A i, j \in 1..ts.num_rows :
          i < j => ~Before(ts.columns[key].vals[j], ts.columns[key].vals[i])

BothNonEmpty == table1.num_rows > 0 /\ table2.num_rows > 0
\* some common column is scalar in table1: a sort key exists
SortKeyExists == \E c \in common_cols : ~is_nested(table1.columns[c].type)
\* the sort of one of the two tables raised
SortFailed ==
    /\ common_cols # {} /\ BothNonEmpty /\ SortKeyExists
    /\ sort_column \in common_cols
    /\ \/ is_nested(table1.columns[sort_column].type)
       \/ is_nested(table2.columns[sort_column].type)
\* both tables were sorted
SortDone ==
    /\ common_cols # {} /\ BothNonEmpty /\ SortKeyExists
    /\ sort_column \in common_cols
    /\ ~is_nested(table1.columns[sort_column].type)
    /\ ~is_nested(table2.columns[sort_column].type)

\* how many column-set findings the two schemas call for
ExpectedColumnFindings ==
    (IF cols1 \ cols2 # {} THEN 1 ELSE 0) + (IF cols2 \ cols1 # {} THEN 1 ELSE 0)

-----------------------------------------------------------------------------
(* C1 *)

\* C1: soundness of the verdict. When compare_tables returns True, the two
\* tables have the same row count and the same column names, and every
\* common column is equal position by position (value and null-ness) in the
\* two tables sorted ascending by the chosen sort key; the sorted tables are
\* the rows of the inputs in ascending order of that key.
C1_Soundness ==
    (Done /\ result = "True") =>
        /\ table1.num_rows = table2.num_rows
        /\ cols1 = cols2
        /\ IF common_cols # {} /\ BothNonEmpty
           THEN /\ sort_column \in common_cols
                /\ IsCanonical(table1, table1_sorted, sort_column)
                /\ IsCanonical(table2, table2_sorted, sort_column)
                /\ \A c \in common_cols :
                      SameCells(table1_sorted.columns[c], table2_sorted.columns[c])
           ELSE \A c \in common_cols :
                      SameCells(table1.columns[c], table2.columns[c])

\* two tables of two rows, given in different row orders, are found equal
\* after both columns were compared
C1_Witness ==
    /\ Done /\ result = "True"
    /\ table1.num_rows = 2
    /\ table1 # table2
    /\ Len(checked) = 2

-----------------------------------------------------------------------------
(* C2 *)

CleanTable(t) ==
    \A c \in column_names(t) : \A i \in 1..t.num_rows :
        t.columns[c].vals[i].k \notin {"nan", "bad"}

HasScalarColumn(t) == \E c \in column_names(t) : ~is_nested(t.columns[c].type)

-----------------------------------------------------------------------------
(* C3 *)

\* some scalar column of t holds pairwise different cells
HasUniqueScalarColumn(t) ==
    \E c \in column_names(t) :
        /\ ~is_nested(t.columns[c].type)
        /\ \A i, j \in 1..t.num_rows :
              i # j => t.columns[c].vals[i] # t.columns[c].vals[j]

UniqueColumn(t, c) ==
    \A i, j \in 1..t.num_rows : i # j => t.columns[c].vals[i] # t.columns[c].vals[j]

\* the alphabetically first scalar column of t exists and holds unique cells
FirstScalarUnique(t) ==
    \E c \in column_names(t) :
        /\ ~is_nested(t.columns[c].type)
        /\ \A d \in column_names(t) :
              ~is_nested(t.columns[d].type) => NameIndex(c) <= NameIndex(d)
        /\ UniqueColumn(t, c)

-----------------------------------------------------------------------------
(* C4 *)

\* the 0-based positions at which column c differs between the sorted tables
DiffPositions(c) ==
    {i - 1 : i \in {j \in 1..table1_sorted.num_rows :
                       table1_sorted.columns[c].vals[j]
                           # table2_sorted.columns[c].vals[j]}}

\* C4: first-difference index. For two tables of the same row count, the
\* index a column-value finding carries is the smallest 0-based position, in
\* the sorted order, at which the two columns differ in value or null-ness.
C4_FirstDifference ==
    (Done /\ table1.num_rows = table2.num_rows) =>
        \A k \in 1..Len(issues) :
            (issues[k].type = "column_values" /\ issues[k].has_index) =>
                /\ issues[k].index \in DiffPositions(issues[k].col)
                /\ \A d \in DiffPositions(issues[k].col) : issues[k].index <= d

-----------------------------------------------------------------------------
(* C5 *)

\* the column-set findings of one side
ColumnIssuesOf(text) == SelectSeq(issues, LAMBDA e : e.type = "columns" /\ e.text = text)

\* the report holds one column-set finding for `text`, naming exactly the
\* columns `only` in alphabetical order, when `only` is not empty, and none
\* when it is
NamesExactly(text, only) ==
    IF only = {}
    THEN ColumnIssuesOf(text) = <<>>
    ELSE /\ Len(ColumnIssuesOf(text)) = 1
         /\ Range(ColumnIssuesOf(text)[1].names) = only
         /\ Len(ColumnIssuesOf(text)[1].names) = Cardinality(only)
         /\ IsAlphabetical(ColumnIssuesOf(text)[1].names)

\* C5: column-set detection. The report holds one column-set finding for
\* each side that has columns the other lacks, naming exactly those columns
\* in alphabetical order, and no other column-set finding; a column of one
\* side only never gets a column-value finding; and the common columns are
\* still compared: when both tables have rows, a sort key exists and neither
\* the sort nor a comparison raised, every common column was checked.
C5_ColumnSets ==
    Done =>
        /\ NamesExactly("label1 has additional columns", cols1 \ cols2)
        /\ NamesExactly("label2 has additional columns", cols2 \ cols1)
        /\ Len(IssuesOfType("columns")) = ExpectedColumnFindings
        /\ \A e \in Range(issues) : e.type = "column_values" => e.col \in common_cols
        /\ (BothNonEmpty /\ SortKeyExists /\ ErrorIssues = <<>>)
              => (Range(checked) = common_cols /\ Len(checked) = Cardinality(common_cols))

\* {a, b} against {b, c}: a finding for each side, and the common column was
\* compared and found different
C5_Witness ==
    /\ Done
    /\ cols1 \ cols2 # {} /\ cols2 \ cols1 # {}
    /\ Len(IssuesOfType("columns")) = 2
    /\ \E c \in common_cols : ValueIssuesOf(c) # <<>>

-----------------------------------------------------------------------------
(* C6 *)

\* there are common columns and each is nested-typed in both tables
AllCommonNested ==
    /\ common_cols # {}
    /\ \A c \in common_cols : /\ is_nested(table1.columns[c].type)
                              /\ is_nested(table2.columns[c].type)

\* C6: unsortable schema. Two tables with at least one common column, all of
\* whose common columns are nested-typed, get an unsortable-schema finding
\* and no column-value finding, for every row count of the two tables, zero
\* rows on either side included.
C6_Unsortable ==
    (Done /\ AllCommonNested) =>
        (UnsortableIssues # <<>> /\ IssuesOfType("column_values") = <<>>)

\* C6 as amended: two tables that both have at least one row, with at least
\* one common column, all of whose common columns are nested-typed, get
\* exactly one unsortable-schema finding and no column-value finding.
C6_UnsortableNonEmpty ==
    (Done /\ AllCommonNested /\ BothNonEmpty) =>
        (Len(UnsortableIssues) = 1 /\ IssuesOfType("column_values") = <<>>)

\* two non-empty tables of different row counts whose two common columns are
\* nested got the unsortable-schema finding
C6_Witness ==
    /\ Done /\ AllCommonNested /\ BothNonEmpty
    /\ Cardinality(common_cols) = 2
    /\ table1.num_rows # table2.num_rows
    /\ UnsortableIssues # <<>>

-----------------------------------------------------------------------------
(* C7 *)

\* C7: the row-count finding is advisory. The report holds exactly one
\* row-count finding when the row counts differ and none when they agree;
\* when they differ, the column-set check was still made (a column-set
\* finding for each side with columns of its own) and, when both tables
\* have rows and a sort key exists, the per-column comparison was still
\* entered: the sort was run and, unless the sort or a comparison raised,
\* every common column was checked.
C7_RowCountAdvisory ==
    Done =>
        /\ Len(IssuesOfType("row_count")) =
              (IF table1.num_rows # table2.num_rows THEN 1 ELSE 0)
        /\ table1.num_rows # table2.num_rows =>
              /\ Len(IssuesOfType("columns")) = ExpectedColumnFindings
              /\ (common_cols # {} /\ BothNonEmpty /\ SortKeyExists) =>
                    /\ sort_column \in common_cols
                    /\ \/ ErrorIssues # <<>>
                       \/ Range(checked) = common_cols

\* a table of two rows against one of one row: one row-count finding, and
\* both common columns were checked all the same
C7_Witness ==
    /\ Done
    /\ BothNonEmpty /\ table1.num_rows # table2.num_rows
    /\ Len(IssuesOfType("row_count")) = 1
    /\ Len(checked) = 2
    /\ ErrorIssues = <<>>

-----------------------------------------------------------------------------
(* C8 *)

\* C8: failure semantics. compare_tables always returns a verdict and lets no
\* exception out; a failed sort and a failed column comparison each end as a
\* comparison-error finding, a failed first-difference lookup as a
\* column-value finding without index.
C8_NeverRaises ==
    Done =>
        /\ ~raised
        /\ result \in {"True", "False"}
        /\ SortFailed => ErrorIssues # <<>>
        /\ \A c \in Range(checked) :
              LET col1 == table1_sorted.columns[c]
                  col2 == table2_sorted.columns[c]
              IN  /\ ColumnsEqual(col1, col2) = "raise" =>
                        (ErrorIssues # <<>> /\ result = "False")
                  /\ (ColumnsEqual(col1, col2) = "differ" /\ ~FirstDiff(col1, col2).ok) =>
                        \E e \in Range(issues) :
                            e.type = "column_values" /\ e.col = c /\ ~e.has_index

\* a column comparison raised after another column's first-difference
\* lookup had raised: both ended as findings and False was returned
C8_Witness ==
    /\ Done /\ ~raised /\ result = "False"
    /\ Len(checked) = 2
    /\ ErrorIssues # <<>>
    /\ \E e \in Range(issues) : e.type = "column_values" /\ ~e.has_index

-----------------------------------------------------------------------------
(* C9 *)

\* the report after a failed sort, but for the kind of the error finding:
\* exactly one comparison-error finding, the last finding; no column-value
\* finding; the row-count and column-set findings made before are kept
SortFailureReport ==
    /\ Len(ErrorIssues) = 1
    /\ issues[Len(issues)] = ErrorIssues[1]
    /\ IssuesOfType("column_values") = <<>>
    /\ checked = <<>>
    /\ Len(IssuesOfType("row_count")) =
          (IF table1.num_rows # table2.num_rows THEN 1 ELSE 0)
    /\ Len(IssuesOfType("columns")) = ExpectedColumnFindings
    /\ Len(issues) = Len(IssuesOfType("row_count")) + ExpectedColumnFindings + 1

\* C9: sort failure. When the sort of either table fails, the report gains
\* exactly one comparison-error finding, of a kind distinct from the
\* unsortable-schema finding's; no column-value finding is emitted; the
\* row-count and column-set findings emitted before are kept.
C9_SortFailure ==
    (Done /\ SortFailed) =>
        /\ SortFailureReport
        /\ ErrorIssues[1].type # NoSortableIssue.type

\* C9 as amended: when the sort of either table fails, the report gains
\* exactly one comparison-error finding, whose type is "sorting", the type
\* of the unsortable-schema finding too, and whose message sets it apart;
\* no column-value finding is emitted; the row-count and column-set findings
\* emitted before are kept.
C9_SortFailureSameType ==
    (Done /\ SortFailed) =>
        /\ SortFailureReport
        /\ ErrorIssues[1].type = "sorting"
        /\ ErrorIssues[1].text # NoSortableIssue.text
        /\ UnsortableIssues = <<>>

\* the sort failed after a row-count and a column-set finding
C9_Witness ==
    /\ Done /\ SortFailed
    /\ Len(issues) = 3
    /\ issues[1].type = "row_count"
    /\ issues[2].type = "columns"
    /\ issues[3].text = "Error during sorting/comparison"

-----------------------------------------------------------------------------
(* C10 *)

\* column c differs position by position between the two sorted tables
Differs(c) == ~SameCells(table1_sorted.columns[c], table2_sorted.columns[c])

\* the place of a finding in the order of discovery
Stage(e) ==
    CASE e.type = "row_count" -> 1
      [] e.type = "columns" /\ e.text = "label1 has additional columns" -> 2
      [] e.type = "columns" -> 3
      [] e.type = "column_values" -> 4
      [] OTHER -> 5

InDiscoveryOrder ==
    \A i, j \in 1..Len(issues) :
        i < j =>
            /\ Stage(issues[i]) <= Stage(issues[j])
            /\ (Stage(issues[i]) = 4 /\ Stage(issues[j]) = 4) =>
                  NameIndex(issues[i].col) < NameIndex(issues[j].col)
            /\ Stage(issues[i]) < 4 => Stage(issues[i]) < Stage(issues[j])

\* C10: completeness and order of findings. Once both tables are sorted,
\* every common column that differs between the sorted tables gets exactly
\* one column-value finding and every common column that does not differ
\* gets none, even if the comparison or the first-difference lookup of
\* another column fails; the findings come in the order row-count, label1's
\* column-set, label2's column-set, column-value by column name.
C10_CompleteInOrder ==
    (Done /\ SortDone) =>
        /\ \A c \in common_cols :
              Len(ValueIssuesOf(c)) = (IF Differs(c) THEN 1 ELSE 0)
        /\ InDiscoveryOrder

====
